---- MODULE Spec2Model ----
(***************************************************************************)
(* The ATOMiK delta-state register (PriceTick and its per-schema twins):   *)
(* a base snapshot, a running XOR accumulator and a bounded history of     *)
(* applied deltas, driven by load / accumulate / rollback.                 *)
(***************************************************************************)
EXTENDS Integers, Sequences, FiniteSets, TLC

(* ---- bounds of the model ---- *)
\* history depth; the source fixes it at 4096, scaled down so that eviction happens
max_history == 3
\* deltas are drawn from 0..MaxDelta, bases from 0..MaxBase (u64 in the source)
MaxDelta == 2
MaxBase == 1
\* Spec lets at most max_history + MaxOver not-rolled-back deltas accumulate after a load
MaxOver == 1
MaxApplied == max_history + MaxOver

Deltas == 0 .. MaxDelta
Bases == 0 .. MaxBase
Counts == 0 .. (max_history + 1)

VARIABLES
    initial_state,   \* PriceTick.initial_state
    accumulator,     \* PriceTick.accumulator
    history,         \* PriceTick.history (front = head = oldest)
    last,            \* the last call: [op, arg, ret]
    pre,             \* the register before the last call
    last2,           \* the call before the last one (SpecPair only)
    pre2,            \* the register before the last two calls (SpecPair only)
    live,            \* deltas accumulated since the last load and not rolled back
    evicted,         \* deltas evicted from history since the last load
    rolled           \* a rollback call happened since the last load

vars == <<initial_state, accumulator, history, last, pre, last2, pre2, live, evicted, rolled>>

(* ---- u64 XOR ---- *)
RECURSIVE Xor(_, _)
Xor(a, b) ==
    IF a = 0 THEN b
    ELSE IF b = 0 THEN a
    ELSE (((a % 2) + (b % 2)) % 2) + (2 * Xor(a \div 2, b \div 2))

RECURSIVE Fold(_)
Fold(s) == IF s = <<>> THEN 0 ELSE Xor(Head(s), Fold(Tail(s)))

Min(a, b) == IF a < b THEN a ELSE b

(* VecDeque operations *)
push_back(q, x) == Append(q, x)
pop_front(q) == Tail(q)
Back(q) == q[Len(q)]
pop_back(q) == SubSeq(q, 1, Len(q) - 1)

(* ---- the register as a value ---- *)
self == [initial_state |-> initial_state, accumulator |-> accumulator, history |-> history]

new_seeded == [initial_state |-> 0, accumulator |-> 0, history |-> <<0>>]
new == [initial_state |-> 0, accumulator |-> 0, history |-> <<>>]

load_keep(s, x) == [s EXCEPT !.initial_state = x]
load(s, x) == [initial_state |-> x, accumulator |-> 0, history |-> <<>>]

accumulate_noevict(s, delta) ==
    [s EXCEPT !.history = push_back(s.history, delta),
              !.accumulator = Xor(s.accumulator, delta)]
accumulate_assign(s, delta) ==
    LET h1 == push_back(s.history, delta)
        h2 == IF Len(h1) > max_history THEN pop_front(h1) ELSE h1
    IN  [s EXCEPT !.history = h2, !.accumulator = delta]
accumulate_unfold(s, delta) ==
    LET h1 == push_back(s.history, delta)
        ev == Len(h1) > max_history
        h2 == IF ev THEN pop_front(h1) ELSE h1
        a1 == IF ev THEN Xor(s.accumulator, Head(h1)) ELSE s.accumulator
    IN  [s EXCEPT !.history = h2, !.accumulator = Xor(a1, delta)]
accumulate_skipzero(s, delta) ==
    LET h1 == push_back(s.history, delta)
        h2 == IF Len(h1) > max_history THEN pop_front(h1) ELSE h1
    IN  IF delta = 0 THEN s
        ELSE [s EXCEPT !.history = h2, !.accumulator = Xor(s.accumulator, delta)]
accumulate(s, delta) ==
    LET h1 == push_back(s.history, delta)
        h2 == IF Len(h1) > max_history THEN pop_front(h1) ELSE h1
    IN  [s EXCEPT !.history = h2, !.accumulator = Xor(s.accumulator, delta)]

reconstruct_acc(s) == s.accumulator
reconstruct(s) == Xor(s.initial_state, s.accumulator)

is_accumulator_zero_fold(s) == Fold(s.history) = 0
is_accumulator_zero(s) == s.accumulator = 0

\* one iteration of the loop body: pop_back and XOR the delta out
rollback_front(s) ==
    IF Len(s.history) > 0
    THEN [s EXCEPT !.history = pop_front(s.history),
                   !.accumulator = Xor(s.accumulator, Head(s.history))]
    ELSE s
rollback_step(s) ==
    IF Len(s.history) > 0
    THEN [s EXCEPT !.history = pop_back(s.history),
                   !.accumulator = Xor(s.accumulator, Back(s.history))]
    ELSE s

RECURSIVE rollback_loop(_, _)
rollback_loop(s, n) == IF n = 0 THEN s ELSE rollback_loop(rollback_step(s), n - 1)

rollback_unclamped(s, count) ==
    [state |-> rollback_loop(s, Min(count, Len(s.history))), ret |-> count]
rollback_reject(s, count) ==
    IF count > Len(s.history)
    THEN [state |-> s, ret |-> 0]
    ELSE [state |-> rollback_loop(s, count), ret |-> count]
rollback(s, count) ==
    LET actual_count == Min(count, Len(s.history))
    IN  [state |-> rollback_loop(s, actual_count), ret |-> actual_count]

get_accumulator(s) == s.accumulator
get_initial_state(s) == s.initial_state
history_size(s) == Len(s.history)

\* the &self methods: a call returns a value and the register it leaves behind
ReadOps == {"reconstruct", "is_accumulator_zero", "get_accumulator",
            "get_initial_state", "history_size"}

read_take(s, r) ==
    [state |-> [s EXCEPT !.accumulator = 0, !.history = <<>>], ret |-> 0]
read(s, r) ==
    [state |-> s,
     ret |-> CASE r = "reconstruct" -> reconstruct(s)
               [] r = "is_accumulator_zero" -> IF is_accumulator_zero(s) THEN 1 ELSE 0
               [] r = "get_accumulator" -> get_accumulator(s)
               [] r = "get_initial_state" -> get_initial_state(s)
               [] r = "history_size" -> history_size(s)]

(* ---- the state machine ---- *)
Init ==
    /\ initial_state = new.initial_state
    /\ accumulator = new.accumulator
    /\ history = new.history
    /\ last = [op |-> "new", arg |-> 0, ret |-> 0]
    /\ pre = new
    /\ last2 = [op |-> "new", arg |-> 0, ret |-> 0]
    /\ pre2 = new
    /\ live = <<>>
    /\ evicted = <<>>
    /\ rolled = FALSE

\* install register value s as the result of call c
Step(s, c) ==
    /\ initial_state' = s.initial_state
    /\ accumulator' = s.accumulator
    /\ history' = s.history
    /\ last' = c
    /\ pre' = self

DoLoad(x) == Step(load(self, x), [op |-> "load", arg |-> x, ret |-> 0])
DoAccumulate(d) == Step(accumulate(self, d), [op |-> "accumulate", arg |-> d, ret |-> 0])
DoRollback(n) ==
    LET r == rollback(self, n)
    IN  Step(r.state, [op |-> "rollback", arg |-> n, ret |-> r.ret])

Load ==
    \E x \in Bases :
        /\ DoLoad(x)
        /\ live' = <<>>
        /\ evicted' = <<>>
        /\ rolled' = FALSE
        /\ UNCHANGED <<last2, pre2>>

Accumulate ==
    \E d \in Deltas :
        /\ Len(live) < MaxApplied
        /\ DoAccumulate(d)
        /\ live' = Append(live, d)
        /\ evicted' = IF Len(history') > Len(history) \/ history = <<>>
                      THEN evicted
                      ELSE Append(evicted, Head(history))
        /\ UNCHANGED <<rolled, last2, pre2>>

Rollback ==
    \E n \in Counts :
        /\ DoRollback(n)
        /\ live' = SubSeq(live, 1, Len(live) - (Len(history) - Len(history')))
        /\ rolled' = TRUE
        /\ UNCHANGED <<evicted, last2, pre2>>

Read ==
    \E r \in ReadOps :
        LET c == read(self, r)
        IN  /\ Step(c.state, [op |-> r, arg |-> 0, ret |-> c.ret])
            /\ UNCHANGED <<live, evicted, rolled, last2, pre2>>

Next == Load \/ Accumulate \/ Rollback \/ Read

Spec == Init /\ [][Next]_vars

\* the same calls, remembering the last two of them
Shift == last2' = last /\ pre2' = pre /\ UNCHANGED <<live, evicted, rolled>>

LoadPair == \E x \in Bases : DoLoad(x) /\ Shift
AccumulatePair == \E d \in Deltas : DoAccumulate(d) /\ Shift
RollbackPair == \E n \in Counts : DoRollback(n) /\ Shift

NextPair == LoadPair \/ AccumulatePair \/ RollbackPair

SpecPair == Init /\ [][NextPair]_vars

(* ======================== the claims ======================== *)

\* C1 (as stated): in every reachable state the accumulator equals the
\* XOR-fold of the deltas currently present in history.
C1_AccIsFoldOfHistory == accumulator = Fold(history)

\* C1 (amended): in every reachable state in which no delta has been evicted
\* since the last load, the accumulator equals the XOR-fold of history.
C1_AccIsFoldUnlessEvicted == evicted = <<>> => accumulator = Fold(history)

C1_Witness ==
    /\ evicted = <<>>
    /\ last.op = "rollback" /\ last.ret >= 1
    /\ Len(history) >= 2
    /\ accumulator # 0

\* C2: in every reachable state history_size() is at most max_history.
C2_HistoryBound == history_size(self) <= max_history

C2_Witness ==
    /\ last.op = "accumulate"
    /\ history_size(pre) = max_history
    /\ history_size(self) = max_history
    /\ rolled

\* C3 (as stated): rollback(n) with history_size() = k < n returns k, empties
\* the history and leaves the accumulator at its value at the last load (zero).
C3_SaturationToZero ==
    (last.op = "rollback" /\ history_size(pre) < last.arg) =>
        /\ last.ret = history_size(pre)
        /\ history = <<>>
        /\ accumulator = 0

\* C3 (amended): rollback(n) with history_size() = k < n returns k, empties
\* the history and leaves the accumulator equal to the XOR-fold of the deltas
\* evicted since the last load (zero when none was evicted).
C3_SaturationToEvicted ==
    (last.op = "rollback" /\ history_size(pre) < last.arg) =>
        /\ last.ret = history_size(pre)
        /\ history = <<>>
        /\ accumulator = Fold(evicted)

C3_Witness ==
    /\ last.op = "rollback"
    /\ history_size(pre) < last.arg
    /\ history_size(pre) >= 2
    /\ last.arg > history_size(pre) + 1
    /\ evicted # <<>>
    /\ accumulator # 0

\* C4: in every reachable state reconstruct() = get_initial_state() XOR
\* get_accumulator(); after load(x) then accumulate(d), reconstruct() = x XOR d.
C4_ReconstructIdentity ==
    /\ reconstruct(self) = Xor(get_initial_state(self), get_accumulator(self))
    /\ (last2.op = "load" /\ last.op = "accumulate") =>
           reconstruct(self) = Xor(last2.arg, last.arg)

C4_Witness ==
    /\ last2.op = "load" /\ last.op = "accumulate"
    /\ last2.arg # 0 /\ last.arg # 0 /\ last2.arg # last.arg
    /\ pre2.accumulator # 0
    /\ pre2.history # <<>>

\* C5: immediately after load(x), from any prior state, get_initial_state() = x,
\* get_accumulator() = 0, history_size() = 0 and reconstruct() = x.
C5_LoadReset ==
    last.op = "load" =>
        /\ get_initial_state(self) = last.arg
        /\ get_accumulator(self) = 0
        /\ history_size(self) = 0
        /\ reconstruct(self) = last.arg

C5_Witness ==
    /\ last.op = "load"
    /\ last.arg # pre.initial_state
    /\ history_size(pre) = max_history
    /\ pre.accumulator # 0
    /\ history = <<>>

\* C6: accumulate(d) twice in succession leaves get_accumulator() and
\* reconstruct() as before the pair, and is_accumulator_zero() stays true.
C6_SelfInverse ==
    (last2.op = "accumulate" /\ last.op = "accumulate" /\ last2.arg = last.arg) =>
        /\ get_accumulator(self) = get_accumulator(pre2)
        /\ reconstruct(self) = reconstruct(pre2)
        /\ is_accumulator_zero(pre2) => is_accumulator_zero(self)

C6_Witness ==
    /\ last2.op = "accumulate" /\ last.op = "accumulate" /\ last2.arg = last.arg
    /\ last.arg # 0
    /\ history_size(pre2) = max_history
    /\ pre2.history[1] # pre2.history[2]
    /\ accumulator # 0

\* C7: with spare capacity, accumulate(d) then rollback(1) returns 1 and
\* restores get_accumulator() and reconstruct().
C7_RollbackUndoesAccumulate ==
    (/\ last2.op = "accumulate"
     /\ last.op = "rollback" /\ last.arg = 1
     /\ history_size(pre2) < max_history) =>
        /\ last.ret = 1
        /\ get_accumulator(self) = get_accumulator(pre2)
        /\ reconstruct(self) = reconstruct(pre2)

C7_Witness ==
    /\ last2.op = "accumulate"
    /\ last.op = "rollback" /\ last.arg = 1
    /\ history_size(pre2) < max_history
    /\ pre2.history # <<>>
    /\ last2.arg # 0
    /\ last2.arg # pre2.history[1]
    /\ accumulator # 0

\* C8: when neither call evicts, accumulate(d1); accumulate(d2) ends with the
\* accumulator and reconstruct() of accumulate(d2); accumulate(d1).
C8_Commutativity ==
    (/\ last2.op = "accumulate" /\ last.op = "accumulate"
     /\ history_size(pre2) + 2 <= max_history) =>
        LET other == accumulate(accumulate(pre2, last.arg), last2.arg)
        IN  /\ get_accumulator(self) = get_accumulator(other)
            /\ reconstruct(self) = reconstruct(other)

C8_Witness ==
    /\ last2.op = "accumulate" /\ last.op = "accumulate"
    /\ history_size(pre2) + 2 <= max_history
    /\ last2.arg # last.arg /\ last2.arg # 0 /\ last.arg # 0
    /\ pre2.accumulator # 0
    /\ pre2.initial_state # 0

\* C9: rollback(count) returns min(count, history_size()), removes exactly
\* that many deltas from the tail of history, keeps the older ones in order,
\* and XORs the removed deltas out of the accumulator (load(0), d1, d2, d3,
\* rollback(2) returns 2 and leaves the accumulator d1).
C9_RollbackTail ==
    last.op = "rollback" =>
        LET k == history_size(pre)
            m == IF last.arg < k THEN last.arg ELSE k
        IN  /\ last.ret = m
            /\ history = [i \in 1 .. (k - m) |-> pre.history[i]]
            /\ accumulator =
                   Xor(pre.accumulator, Fold([i \in 1 .. m |-> pre.history[k - m + i]]))
            /\ (k = 3 /\ last.arg = 2 /\ evicted = <<>>) =>
                   (last.ret = 2 /\ accumulator = pre.history[1])

C9_Witness ==
    /\ last.op = "rollback" /\ last.arg = 2 /\ last.ret = 2
    /\ history_size(pre) = 3 /\ evicted = <<>>
    /\ pre.initial_state = 0
    /\ pre.history[1] # 0 /\ pre.history[2] # 0 /\ pre.history[3] # 0
    /\ pre.history[1] # pre.history[2] /\ pre.history[2] # pre.history[3]
    /\ accumulator = pre.history[1]

\* C10: after a load and any number of accumulate calls d1..dn without a
\* rollback (n may exceed max_history), get_accumulator() = d1 XOR ... XOR dn.
C10_AccIsFoldOfApplied == ~rolled => get_accumulator(self) = Fold(live)

C10_Witness ==
    /\ ~rolled
    /\ last.op = "accumulate"
    /\ Len(live) > max_history
    /\ initial_state # 0
    /\ accumulator # 0
    /\ Fold(history) # accumulator

\* C11 (as stated): is_accumulator_zero() is true exactly when the XOR-fold of
\* the deltas retained in history is zero.
C11_ZeroIffHistoryFoldZero == is_accumulator_zero(self) <=> (Fold(history) = 0)

\* C11 (amended): is_accumulator_zero() is true exactly when the XOR-fold of
\* the retained history equals the XOR-fold of the deltas evicted since the
\* last load (so, with no eviction, exactly when the fold of history is zero).
C11_ZeroIffFoldsAgree == is_accumulator_zero(self) <=> (Fold(history) = Fold(evicted))

C11_Witness ==
    /\ is_accumulator_zero(self)
    /\ evicted # <<>> /\ Fold(evicted) # 0
    /\ Fold(history) # 0
    /\ last.op = "accumulate"

\* C12: accumulate(d) at history_size() = max_history removes the head, makes d
\* the tail, keeps the size and sets accumulator to old XOR d (the evicted
\* delta stays folded in); below capacity nothing is evicted and the size
\* grows by one.
C12_EvictionKeepsAccumulator ==
    last.op = "accumulate" =>
        /\ accumulator = Xor(pre.accumulator, last.arg)
        /\ IF history_size(pre) = max_history
           THEN /\ history = Append(Tail(pre.history), last.arg)
                /\ history_size(self) = max_history
           ELSE /\ history = Append(pre.history, last.arg)
                /\ history_size(self) = history_size(pre) + 1

C12_Witness ==
    /\ last.op = "accumulate"
    /\ history_size(pre) = max_history
    /\ pre.history[1] # 0 /\ pre.history[1] # pre.history[2]
    /\ last.arg # 0 /\ last.arg # pre.history[1]
    /\ accumulator # Fold(history)

\* C13: in every state since the last load the accumulator equals the fold of
\* history XOR the fold of the deltas evicted since that load, whatever
\* accumulate and rollback calls followed the eviction; a load clears it.
C13_EvictedPersistsUntilLoad ==
    /\ accumulator = Xor(Fold(history), Fold(evicted))
    /\ last.op = "load" => (accumulator = 0 /\ evicted = <<>>)

C13_Witness ==
    /\ Fold(evicted) # 0
    /\ rolled
    /\ last.op = "rollback" /\ last.ret = max_history
    /\ history = <<>>
    /\ accumulator = Fold(evicted)

\* C14: accumulate and rollback leave get_initial_state() unchanged; load
\* resets the accumulator to zero and clears the whole history, so a rollback
\* right after a load undoes nothing.
C14_OnlyLoadChangesBase ==
    /\ last.op \in {"accumulate", "rollback"} =>
           get_initial_state(self) = get_initial_state(pre)
    /\ last.op = "load" => (accumulator = 0 /\ history = <<>>)
    /\ (last2.op = "load" /\ last.op = "rollback") => (last.ret = 0 /\ self = pre)

C14_Witness ==
    /\ last2.op = "load" /\ last.op = "rollback"
    /\ last.arg >= 1
    /\ last2.arg # 0 /\ last2.arg # pre2.initial_state
    /\ history_size(pre2) = max_history
    /\ pre2.accumulator # 0
    /\ initial_state = last2.arg

\* C15: reconstruct, is_accumulator_zero, get_accumulator, get_initial_state and
\* history_size leave base, accumulator and history unchanged.
C15_ReadsArePure == last.op \in ReadOps => self = pre

C15_Witness ==
    /\ last.op = "reconstruct"
    /\ initial_state # 0 /\ accumulator # 0
    /\ history_size(self) = max_history
    /\ last.ret = Xor(initial_state, accumulator)

\* C16: accumulate(0) leaves the accumulator and reconstruct() unchanged but
\* appends an entry (evicting the oldest at capacity); a rollback(1) right after
\* removes that entry and returns 1 without changing the accumulator.
C16_ZeroDeltaTakesSlot ==
    /\ (last.op = "accumulate" /\ last.arg = 0) =>
           /\ get_accumulator(self) = get_accumulator(pre)
           /\ reconstruct(self) = reconstruct(pre)
           /\ history =
                  IF history_size(pre) < max_history
                  THEN Append(pre.history, 0)
                  ELSE Append(Tail(pre.history), 0)
    /\ (/\ last2.op = "accumulate" /\ last2.arg = 0
        /\ last.op = "rollback" /\ last.arg = 1) =>
           /\ last.ret = 1
           /\ get_accumulator(self) = get_accumulator(pre)
           /\ history_size(self) = history_size(pre) - 1

C16_Witness ==
    /\ last2.op = "accumulate" /\ last2.arg = 0
    /\ last.op = "rollback" /\ last.arg = 1
    /\ history_size(pre2) = max_history
    /\ pre2.history[1] # 0
    /\ history_size(self) = max_history - 1
    /\ accumulator # 0

\* C17: a freshly constructed register has base, accumulator, history size and
\* reconstruct() all zero and is_accumulator_zero() true, and takes accumulate
\* and rollback as its first call.
C17_FreshRegister ==
    /\ last.op = "new" =>
           /\ get_initial_state(self) = 0
           /\ get_accumulator(self) = 0
           /\ history_size(self) = 0
           /\ is_accumulator_zero(self)
           /\ reconstruct(self) = 0
    /\ (last2.op = "new" /\ last.op = "accumulate") =>
           /\ get_accumulator(self) = last.arg
           /\ history = <<last.arg>>
           /\ get_initial_state(self) = 0
    /\ (last2.op = "new" /\ last.op = "rollback") =>
           /\ last.ret = 0
           /\ get_accumulator(self) = 0
           /\ history_size(self) = 0

C17_Witness ==
    /\ last2.op = "new" /\ last.op = "accumulate"
    /\ last.arg # 0
    /\ accumulator = last.arg
    /\ history_size(self) = 1

\* C18: history is always a contiguous suffix, in application order, of the
\* deltas accumulated since the last load and not rolled back, of length at
\* most min(m, max_history), and exactly that long while no rollback happened.
C18_HistoryIsSuffixOfLive ==
    LET m == Len(live)
        n == history_size(self)
    IN  /\ n <= Min(m, max_history)
        /\ history = [i \in 1 .. n |-> live[m - n + i]]
        /\ ~rolled => n = Min(m, max_history)

C18_Witness ==
    /\ evicted # <<>>
    /\ last.op = "rollback" /\ last.ret = 1
    /\ history_size(self) = max_history - 1
    /\ history_size(self) < Min(Len(live), max_history)
    /\ history[1] # history[2]
    /\ live[1] # history[1]

\* C19: accumulate(d) then rollback(1) restores base, accumulator and history
\* exactly when history_size() < max_history before the accumulate; from a full
\* history the base and accumulator are restored and history has lost its
\* oldest delta.
C19_UndoRestoresUnlessFull ==
    (last2.op = "accumulate" /\ last.op = "rollback" /\ last.arg = 1) =>
        /\ (self = pre2) <=> (history_size(pre2) < max_history)
        /\ history_size(pre2) = max_history =>
               /\ initial_state = pre2.initial_state
               /\ accumulator = pre2.accumulator
               /\ history = Tail(pre2.history)

C19_Witness ==
    /\ last2.op = "accumulate" /\ last.op = "rollback" /\ last.arg = 1
    /\ history_size(pre2) = max_history
    /\ pre2.history[1] # 0
    /\ last2.arg # 0
    /\ history = Tail(pre2.history)
    /\ accumulator # Fold(history)

\* C20: rollback(a) then rollback(b) leaves the register of a single
\* rollback(a + b) and the two return values add up to its return value;
\* rollback(0) and rollback on an empty history return 0 and change nothing.
C20_RollbackComposes ==
    /\ (last2.op = "rollback" /\ last.op = "rollback") =>
           LET single == rollback(pre2, last2.arg + last.arg)
           IN  /\ self = single.state
               /\ last2.ret + last.ret = single.ret
    /\ (last.op = "rollback" /\ (last.arg = 0 \/ pre.history = <<>>)) =>
           (last.ret = 0 /\ self = pre)

C20_Witness ==
    /\ last2.op = "rollback" /\ last.op = "rollback"
    /\ last2.ret >= 1 /\ last.ret >= 1
    /\ last.ret < last.arg
    /\ history_size(pre2) = max_history
    /\ pre2.accumulator # 0
    /\ pre2.accumulator # accumulator

====
